---- MODULE Spec2Model ----
(***************************************************************************)
(* Model of sec_helper/sec_helper_functions.py: the document segmenter     *)
(* (find_documents), the HTML text extractor (extract_text_from_html) and  *)
(* the 8-K assembler (get_8K_filing_and_exhibits).                         *)
(*                                                                         *)
(* Python strings are sequences of one-character strings, offsets are the  *)
(* 0-based offsets of the source; SubSeq is 1-based.                       *)
(***************************************************************************)
EXTENDS Integers, Sequences, FiniteSets, TLC

VARIABLES filed, marks, raw_submission, pc, args, documents, form_8k_string, form_8k_keys, result

vars == <<filed, marks, raw_submission, pc, args, documents, form_8k_string, form_8k_keys, result>>

\* ---------------------------------------------------------------- bounds
\* pieces the archive concatenates into one raw submission
MaxPieces == 3
\* text nodes of one parsed HTML document
MaxNodes == 2

\* ------------------------------------------------------- string helpers
Min2(a, b) == IF a <= b THEN a ELSE b

RECURSIVE Concat(_)
Concat(ss) == IF ss = <<>> THEN <<>> ELSE Head(ss) \o Concat(Tail(ss))

\* Python raw_text[s:e] with 0 <= s, 0 <= e (0-based, e exclusive, empty when e <= s)
Slice(t, s, e) == IF Min2(e, Len(t)) <= s THEN <<>> ELSE SubSeq(t, s + 1, Min2(e, Len(t)))

\* the pattern pat occurs in t at 1-based position i
MatchesAt(t, pat, i) ==
    /\ i + Len(pat) - 1 <= Len(t)
    /\ t[i] = pat[1]
    /\ SubSeq(t, i, i + Len(pat) - 1) = pat

\* ------------------------------------------------------------- patterns
doc_start_pattern == <<"<", "D", "O", "C", "U", "M", "E", "N", "T", ">">>
doc_end_pattern == <<"<", "/", "D", "O", "C", "U", "M", "E", "N", "T", ">">>
type_tag == <<"<", "T", "Y", "P", "E", ">">>
NL == "\n"

\* re finditer of a literal pattern: 0-based (start, end) offsets of the
\* non-overlapping matches, leftmost first, scanning from 1-based position i
RECURSIVE finditer(_, _, _)
finditer(pat, t, i) ==
    IF i > Len(t) THEN <<>>
    ELSE IF MatchesAt(t, pat, i)
         THEN <<[start |-> i - 1, end |-> i - 1 + Len(pat)]>> \o finditer(pat, t, i + Len(pat))
         ELSE finditer(pat, t, i + 1)

\* first 1-based position >= i holding a line break, Len(t) + 1 when none
RECURSIVE LineEnd(_, _)
LineEnd(t, i) == IF i > Len(t) \/ t[i] = NL THEN i ELSE LineEnd(t, i + 1)

\* type_pattern.findall: the matches of <TYPE>[^\n]+ (tag and the rest of
\* its line, at least one character), non-overlapping, leftmost first
RECURSIVE type_findall(_, _)
type_findall(t, i) ==
    IF i > Len(t) THEN <<>>
    ELSE IF /\ MatchesAt(t, type_tag, i)
            /\ i + Len(type_tag) <= Len(t)
            /\ t[i + Len(type_tag)] # NL
         THEN LET e == LineEnd(t, i + Len(type_tag))
              IN  <<SubSeq(t, i, e - 1)>> \o type_findall(t, e)
         ELSE type_findall(t, i + 1)

\* the end offsets taken where the marker ends instead of where it begins
doc_end_is_at_end(raw_text) ==
    LET ms == finditer(doc_end_pattern, raw_text, 1)
    IN  [k \in DOMAIN ms |-> ms[k].end]

\* the start offsets taken where the marker begins instead of where it ends
doc_start_is_at_start(raw_text) ==
    LET ms == finditer(doc_start_pattern, raw_text, 1)
    IN  [k \in DOMAIN ms |-> ms[k].start]

doc_start_is(raw_text) ==
    LET ms == finditer(doc_start_pattern, raw_text, 1)
    IN  [k \in DOMAIN ms |-> ms[k].end]

doc_end_is(raw_text) ==
    LET ms == finditer(doc_end_pattern, raw_text, 1)
    IN  [k \in DOMAIN ms |-> ms[k].start]

\* the labels searched only from the first start marker on
doc_types_from_first_start(raw_text) ==
    LET ss == finditer(doc_start_pattern, raw_text, 1)
        ms == type_findall(raw_text, IF ss = <<>> THEN 1 ELSE ss[1].end + 1)
    IN  [k \in DOMAIN ms |-> SubSeq(ms[k], Len(type_tag) + 1, Len(ms[k]))]

doc_types(raw_text) ==
    LET ms == type_findall(raw_text, 1)
    IN  [k \in DOMAIN ms |-> SubSeq(ms[k], Len(type_tag) + 1, Len(ms[k]))]

\* ----------------------------------------------------------------- dict
\* a Python dict: the sequence of its (key, value) items in insertion order
DictHas(d, k) == \E i \in DOMAIN d : d[i].key = k

DictGet(d, k) == d[CHOOSE i \in DOMAIN d : d[i].key = k].value

\* a present key keeps its first value (setdefault instead of assignment)
DictSet_keep_first(d, k, v) ==
    IF DictHas(d, k) THEN d ELSE Append(d, [key |-> k, value |-> v])

\* d[k] = v: a present key keeps its position and takes the new value
DictSet(d, k, v) ==
    IF DictHas(d, k)
    THEN [i \in DOMAIN d |-> IF d[i].key = k THEN [key |-> k, value |-> v] ELSE d[i]]
    ELSE Append(d, [key |-> k, value |-> v])

\* the loop stopping one triple early
ZipLen_one_short(a, b, c) ==
    IF Min2(Len(a), Min2(Len(b), Len(c))) = 0 THEN 0 ELSE Min2(Len(a), Min2(Len(b), Len(c))) - 1

\* zip(a, b, c) stops at the shortest
ZipLen(a, b, c) == Min2(Len(a), Min2(Len(b), Len(c)))

RECURSIVE ZipLoop(_, _, _, _, _, _)
ZipLoop(raw_text, types, starts, ends, i, d) ==
    IF i > ZipLen(types, starts, ends) THEN d
    ELSE ZipLoop(raw_text, types, starts, ends, i + 1,
                 DictSet(d, types[i], Slice(raw_text, starts[i], ends[i])))

find_documents(raw_text) ==
    ZipLoop(raw_text, doc_types(raw_text), doc_start_is(raw_text), doc_end_is(raw_text), 1, <<>>)

\* --------------------------------------------------------- raw submissions
L_8K == <<"8", "-", "K">>
L_EX == <<"E", "X", "-", "9", "9", ".", "1">>
L_10K == <<"1", "0", "-", "K">>
W_foo == <<"f", "o", "o", "\n">>
W_bar == <<"b", "a", "r", "\n">>

Block(types, body) == [kind |-> "block", types |-> types, body |-> body]
Stray(kind, types) == [kind |-> kind, types |-> types, body |-> <<>>]

\* what the archive files into a submission: whole <DOCUMENT> blocks with
\* one <TYPE> line, with none and with two, and the stray markers and
\* <TYPE> lines of malformed filings
Pieces ==
    {Block(<<L_8K>>, W_foo), Block(<<L_EX>>, W_bar), Block(<<L_10K>>, W_foo),
     Block(<<L_8K>>, W_bar), Block(<<>>, <<>>), Block(<<L_8K, L_EX>>, W_foo),
     Stray("start", <<>>), Stray("end", <<>>), Stray("type", <<L_8K>>)}

TypeLine(label) == type_tag \o label \o <<NL>>

TypeLines(types) == Concat([k \in DOMAIN types |-> TypeLine(types[k])])

BlockBody(p) == TypeLines(p.types) \o p.body

Render(p) ==
    CASE p.kind = "block" -> doc_start_pattern \o BlockBody(p) \o doc_end_pattern
      [] p.kind = "start" -> doc_start_pattern
      [] p.kind = "end" -> doc_end_pattern
      [] p.kind = "type" -> TypeLines(p.types)

\* The markers of the filed text, known from the pieces it was built of and
\* not from any scan of the text: what |-> "S" | "E" | "T", at |-> the 0-based
\* offset of the marker's first character, label |-> a <TYPE> line's label.
Mark(what, at, label) == [what |-> what, at |-> at, label |-> label]

RECURSIVE TypeMarks(_, _)
TypeMarks(types, at) ==
    IF types = <<>> THEN <<>>
    ELSE <<Mark("T", at, Head(types))>> \o TypeMarks(Tail(types), at + Len(TypeLine(Head(types))))

PieceMarks(p, at) ==
    CASE p.kind = "block" ->
            <<Mark("S", at, <<>>)>>
            \o TypeMarks(p.types, at + Len(doc_start_pattern))
            \o <<Mark("E", at + Len(doc_start_pattern) + Len(BlockBody(p)), <<>>)>>
      [] p.kind = "start" -> <<Mark("S", at, <<>>)>>
      [] p.kind = "end" -> <<Mark("E", at, <<>>)>>
      [] p.kind = "type" -> TypeMarks(p.types, at)

None == [kind |-> "None"]

\* ------------------------------------------------------- text extraction
\* the whitespace \s matches among the characters of the model
IsSpace(c) == c \in {" ", "\n", "\t"}

RECURSIVE SkipSpace(_)
SkipSpace(t) == IF t # <<>> /\ IsSpace(Head(t)) THEN SkipSpace(Tail(t)) ELSE t

\* every whitespace character replaced on its own (the pattern \s for \s+)
re_sub_space_each(t) == [k \in DOMAIN t |-> IF IsSpace(t[k]) THEN " " ELSE t[k]]

\* re.sub("\s+", " ", text): every maximal whitespace run becomes one space
RECURSIVE re_sub_space(_)
re_sub_space(t) ==
    IF t = <<>> THEN <<>>
    ELSE IF IsSpace(Head(t)) THEN <<" ">> \o re_sub_space(SkipSpace(Tail(t)))
    ELSE <<Head(t)>> \o re_sub_space(Tail(t))

\* " ".join(strings)
RECURSIVE join(_)
join(ss) ==
    IF ss = <<>> THEN <<>>
    ELSE IF Len(ss) = 1 THEN ss[1]
    ELSE ss[1] \o <<" ">> \o join(Tail(ss))

\* A parsed document (the Selector) is the sequence of the text nodes under
\* /html/body in document order, each marked as lying under a <p> or not.
IsP(n) == n.p

xpath_p_text(sel) ==
    LET ns == SelectSeq(sel, IsP) IN [k \in DOMAIN ns |-> ns[k].text]

xpath_body_text(sel) == [k \in DOMAIN sel |-> sel[k].text]

Return(v) == [kind |-> "return", value |-> v]
Raise(e) == [kind |-> "raise", value |-> e]

IntArg(n) == [kind |-> "int", value |-> n]

\* the threshold test with <= for <
extract_text_from_html_le(sel, min_length) ==
    LET text == re_sub_space(join(xpath_p_text(sel)))
        body == re_sub_space(join(xpath_body_text(sel)))
    IN  IF Len(text) = 0 THEN Return(body)
        ELSE IF min_length.kind # "int" THEN Raise("TypeError")
        ELSE IF Len(text) <= min_length.value THEN Return(body)
        ELSE Return(text)

\* an argument check rejecting a negative threshold before the extraction
extract_text_from_html_checked(sel, min_length) ==
    LET text == re_sub_space(join(xpath_p_text(sel)))
        body == re_sub_space(join(xpath_body_text(sel)))
    IN  IF min_length.kind = "int" /\ min_length.value < 0 THEN Raise("InvalidArgument")
        ELSE IF Len(text) = 0 THEN Return(body)
        ELSE IF min_length.kind # "int" THEN Raise("TypeError")
        ELSE IF Len(text) < min_length.value THEN Return(body)
        ELSE Return(text)

\* len(text) < min_length: a TypeError unless min_length is a number
extract_text_from_html(sel, min_length) ==
    LET text == re_sub_space(join(xpath_p_text(sel)))
        body == re_sub_space(join(xpath_body_text(sel)))
    IN  IF Len(text) = 0 THEN Return(body)
        ELSE IF min_length.kind # "int" THEN Raise("TypeError")
        ELSE IF Len(text) < min_length.value THEN Return(body)
        ELSE Return(text)

\* ------------------------------------------------------------- assembler
\* re.match(pattern, key) for a literal pattern: key starts with it
re_match(pat, key) == MatchesAt(key, pat, 1)

P_8K == <<"8", "-", "K">>
P_EX == <<"E", "X", "-">>

\* the test letting every key through
IsWanted_unfiltered(key) == key = key

\* the test of line 190: the key starts with "8-K" or with "EX-"
IsWanted(key) == re_match(P_8K, key) \/ re_match(P_EX, key)

\* the loop with the extraction guarded: a failing document is skipped
RECURSIVE Loop8K_isolating(_, _, _, _, _, _)
Loop8K_isolating(docs, sel, a, i, str, keys) ==
    IF i > Len(docs) THEN [kind |-> "return", string |-> str, keys |-> keys]
    ELSE LET key == docs[i].key IN
         IF IsWanted(key)
         THEN IF a.raw_html
              THEN Loop8K_isolating(docs, sel, a, i + 1,
                          str \o key \o <<":">> \o DictGet(docs, key) \o a.separator_character,
                          keys \o key \o a.separator_character)
              ELSE LET x == extract_text_from_html(sel[i], a.min_length) IN
                   IF x.kind = "raise"
                   THEN Loop8K_isolating(docs, sel, a, i + 1, str, keys)
                   ELSE Loop8K_isolating(docs, sel, a, i + 1,
                               str \o key \o <<":">> \o x.value \o a.separator_character,
                               keys \o key \o a.separator_character)
         ELSE Loop8K_isolating(docs, sel, a, i + 1, str, keys)

\* the loop over docs.keys() from item i on, with the two accumulators; sel[i]
\* is the parse of the i-th body; an exception leaves the loop at once
RECURSIVE Loop8K(_, _, _, _, _, _)
Loop8K(docs, sel, a, i, str, keys) ==
    IF i > Len(docs) THEN [kind |-> "return", string |-> str, keys |-> keys]
    ELSE LET key == docs[i].key IN
         IF IsWanted(key)
         THEN IF a.raw_html
              THEN Loop8K(docs, sel, a, i + 1,
                          str \o key \o <<":">> \o DictGet(docs, key) \o a.separator_character,
                          keys \o key \o a.separator_character)
              ELSE LET x == extract_text_from_html(sel[i], a.min_length) IN
                   IF x.kind = "raise"
                   THEN [kind |-> "raise", value |-> x.value,
                         string |-> str \o key \o <<":">>, keys |-> keys]
                   ELSE Loop8K(docs, sel, a, i + 1,
                               str \o key \o <<":">> \o x.value \o a.separator_character,
                               keys \o key \o a.separator_character)
         ELSE Loop8K(docs, sel, a, i + 1, str, keys)

\* ----------------------------------------------------------------- inputs
SEP_bar == <<"|">>
SEP_default == <<"-", ";", "-">>
MinLengths == {IntArg(0 - 1), IntArg(0), IntArg(3), IntArg(6), None}

Call8K(min_length, raw_html, separator_character, return_keys) ==
    [min_length |-> min_length, raw_html |-> raw_html,
     separator_character |-> separator_character, return_keys |-> return_keys,
     sel |-> <<>>]

\* the argument lists get_8K_filing_and_exhibits is called with
Calls8K ==
    {Call8K(IntArg(0), TRUE, SEP_bar, FALSE), Call8K(IntArg(0), TRUE, SEP_default, TRUE)}
    \cup {Call8K(ml, FALSE, SEP_bar, FALSE) : ml \in {IntArg(0 - 1), IntArg(4), None}}
    \cup {Call8K(ml, FALSE, SEP_default, TRUE) : ml \in {IntArg(0 - 1), IntArg(4), None}}

T_ab == <<"a", " ", "b">>
T_wide == <<"a", " ", "\n", "b">>
T_tab == <<"\t", "c">>
T_space == <<" ">>
NodeTexts == {T_ab, T_wide, T_tab, T_space}

Nodes == [p : BOOLEAN, text : NodeTexts]

RECURSIVE SeqsUpTo(_, _)
SeqsUpTo(S, n) ==
    IF n = 0 THEN {<<>>}
    ELSE LET R == SeqsUpTo(S, n - 1)
         IN  R \cup {Append(r, x) : r \in {q \in R : Len(q) = n - 1}, x \in S}

Selectors == SeqsUpTo(Nodes, MaxNodes)

\* the parses the bodies of a submission may have
ParsedDocs ==
    {<<[p |-> TRUE, text |-> T_wide], [p |-> FALSE, text |-> T_tab]>>,
     <<[p |-> FALSE, text |-> T_ab]>>}

\* ---------------------------------------------------------------- machine
\* a session works on a raw submission of the archive ...
InitSubmission ==
    /\ filed = <<>>
    /\ marks = <<>>
    /\ raw_submission = <<>>
    /\ pc = "idle"
    /\ args = None
    /\ documents = None
    /\ form_8k_string = None
    /\ form_8k_keys = None
    /\ result = None

\* ... or holds an HTML document and a threshold for the extractor
InitExtract ==
    /\ filed = <<>>
    /\ marks = <<>>
    /\ raw_submission = <<>>
    /\ pc = "html"
    /\ args \in [html : Selectors, min_length : MinLengths]
    /\ documents = None
    /\ form_8k_string = None
    /\ form_8k_keys = None
    /\ result = None

Init == InitSubmission \/ InitExtract

\* the archive (external collaborator) extends the submission text
File(p) ==
    /\ pc = "idle"
    /\ Len(filed) < MaxPieces
    /\ filed' = Append(filed, p)
    /\ marks' = marks \o PieceMarks(p, Len(raw_submission))
    /\ raw_submission' = raw_submission \o Render(p)
    /\ UNCHANGED <<pc, args, documents, form_8k_string, form_8k_keys, result>>

\* a call find_documents(raw_submission)
CallFindDocuments ==
    /\ pc = "idle"
    /\ pc' = "find_documents"
    /\ args' = [raw_text |-> raw_submission]
    /\ documents' = find_documents(raw_submission)
    /\ result' = Return(documents')
    /\ UNCHANGED <<filed, marks, raw_submission, form_8k_string, form_8k_keys>>

\* the items of docs the loop's prefix test lets through
Matching(docs) == {i \in DOMAIN docs : IsWanted(docs[i].key)}

\* a call get_8K_filing_and_exhibits(...): the fetch returns the filed text;
\* sel is what Selector(text = body) yields for each body that is parsed,
\* the same parse for the same body
CallGet8K ==
    /\ pc = "idle"
    /\ pc' = "get_8K"
    /\ \E docs \in {find_documents(raw_submission)} :
       \E c \in Calls8K :
       \E sel \in [IF c.raw_html THEN {} ELSE Matching(docs) -> ParsedDocs] :
       \E r \in {Loop8K(docs, sel, c, 1, <<>>, <<>>)} :
              /\ \A i, j \in DOMAIN sel : docs[i].value = docs[j].value => sel[i] = sel[j]
              /\ args' = [c EXCEPT !.sel = sel]
              /\ documents' = docs
              /\ form_8k_string' = r.string
              /\ form_8k_keys' = r.keys
              /\ result' = IF r.kind = "raise" THEN Raise(r.value)
                           ELSE IF c.return_keys THEN Return(<<r.keys, r.string>>)
                           ELSE Return(r.string)
    /\ UNCHANGED <<filed, marks, raw_submission>>

\* a call extract_text_from_html(html_text, min_length_extract_from_body)
CallExtract ==
    /\ pc = "html"
    /\ pc' = "extract"
    /\ result' = extract_text_from_html(args.html, args.min_length)
    /\ UNCHANGED <<filed, marks, raw_submission, args, documents, form_8k_string, form_8k_keys>>

Next ==
    \/ \E p \in Pieces : File(p)
    \/ CallFindDocuments
    \/ CallGet8K
    \/ CallExtract

Spec == Init /\ [][Next]_vars

\* ------------------------------------------------- what the archive filed
IsS(m) == m.what = "S"
IsE(m) == m.what = "E"
IsT(m) == m.what = "T"

\* the i-th start marker, end marker and <TYPE> line of the filed text
FiledStarts == SelectSeq(marks, IsS)
FiledEnds == SelectSeq(marks, IsE)
FiledTypes == SelectSeq(marks, IsT)

\* s_i: the offset just after the i-th '<DOCUMENT>'; e_i: where the i-th '</DOCUMENT>' begins
S_(i) == FiledStarts[i].at + Len(doc_start_pattern)
E_(i) == FiledEnds[i].at

\* raw_text[s_i:e_i], read off the text character by character
Between(i) == [k \in 1 .. (IF E_(i) > S_(i) THEN E_(i) - S_(i) ELSE 0) |-> raw_submission[S_(i) + k]]

WellFormedBlock(p) == p.kind = "block" /\ Len(p.types) = 1

AllWellFormed == \A k \in DOMAIN filed : WellFormedBlock(filed[k])

DistinctLabels == \A j, k \in DOMAIN FiledTypes : FiledTypes[j].label = FiledTypes[k].label => j = k

Entries(d, k) == {i \in DOMAIN d : d[i].key = k}

\* the last of the first m <TYPE> lines of the filed text that carries label l
LastWith(l, m) ==
    CHOOSE i \in 1 .. m :
        /\ FiledTypes[i].label = l
        /\ \A j \in 1 .. m : FiledTypes[j].label = l => j <= i

KeysDistinct(d) == \A j, k \in DOMAIN d : d[j].key = d[k].key => j = k

\* ------------------------------------------------------------------ claims
\* C1: for a raw text of N >= 0 well-formed blocks with pairwise distinct
\* <TYPE> labels, find_documents returns a mapping of exactly N entries and
\* the value under the i-th label is raw_text[s_i:e_i], s_i just after the
\* i-th '<DOCUMENT>' and e_i where the i-th '</DOCUMENT>' begins; the empty
\* text gives the empty mapping.
C1_Segmentation ==
    (pc = "find_documents" /\ AllWellFormed /\ DistinctLabels) =>
        /\ result = Return(documents)
        /\ Len(documents) = Len(filed)
        /\ \A i \in DOMAIN filed :
              /\ Cardinality(Entries(documents, filed[i].types[1])) = 1
              /\ \A k \in Entries(documents, filed[i].types[1]) :
                    documents[k].value = Between(i)

C1_Witness ==
    /\ pc = "find_documents"
    /\ AllWellFormed
    /\ DistinctLabels
    /\ Len(filed) = 3
    /\ Len(documents) = 3

\* C2: when several well-formed blocks carry the same label, the mapping
\* holds one entry for that label, its value is the body of the last such
\* block, and the differing body of an earlier one is no value of the mapping.
C2_LastWriteWins ==
    (pc = "find_documents" /\ AllWellFormed) =>
        \A i \in DOMAIN filed :
            LET l == filed[i].types[1]
                last == LastWith(l, Len(filed))
            IN  /\ Cardinality(Entries(documents, l)) = 1
                /\ \A k \in Entries(documents, l) : documents[k].value = Between(last)
                /\ Between(i) # Between(last) =>
                      \A k \in DOMAIN documents : documents[k].value # Between(i)

C2_Witness ==
    /\ pc = "find_documents"
    /\ AllWellFormed
    /\ \E i, j \in DOMAIN filed :
          /\ i < j
          /\ filed[i].types = filed[j].types
          /\ filed[i].body # filed[j].body
    /\ Len(documents) < Len(filed)

\* the number of positional triples the three marker sequences allow
FiledZip == Min2(Len(FiledTypes), Min2(Len(FiledStarts), Len(FiledEnds)))

CountsDiffer ==
    ~ (Len(FiledTypes) = Len(FiledStarts) /\ Len(FiledStarts) = Len(FiledEnds))

\* C8: when the numbers of start markers, end markers and <TYPE> lines
\* differ, find_documents returns without error a mapping built from the
\* first m = min of the three counts triples alone: its keys are the first m
\* labels, each value the slice of the last of these triples with that key,
\* and it has at most m entries.
C8_TruncateToShortest ==
    (pc = "find_documents" /\ CountsDiffer) =>
        /\ result = Return(documents)
        /\ Len(documents) <= FiledZip
        /\ KeysDistinct(documents)
        /\ {documents[k].key : k \in DOMAIN documents}
              = {FiledTypes[i].label : i \in 1 .. FiledZip}
        /\ \A k \in DOMAIN documents :
              documents[k].key \in {FiledTypes[i].label : i \in 1 .. FiledZip}
              => documents[k].value = Between(LastWith(documents[k].key, FiledZip))

C8_Witness ==
    /\ pc = "find_documents"
    /\ CountsDiffer
    /\ FiledZip >= 1
    /\ Len(FiledTypes) > FiledZip
    /\ Len(FiledEnds) > FiledZip
    /\ Len(documents) >= 1

\* the paragraph-scoped and the whole-body text of the document handed to
\* the extractor, joined, and then whitespace-normalized
JoinedP == join(xpath_p_text(args.html))
JoinedBody == join(xpath_body_text(args.html))
ParagraphText == re_sub_space(JoinedP)
BodyText == re_sub_space(JoinedBody)

\* C3: extract_text_from_html returns the normalized paragraph text when it
\* is non-empty and at least min_length long, and the normalized whole-body
\* text in every other case, however short that text is.
C3_ParagraphOrBody ==
    (pc = "extract" /\ args.min_length.kind = "int") =>
        result = Return(IF Len(ParagraphText) > 0 /\ Len(ParagraphText) >= args.min_length.value
                        THEN ParagraphText ELSE BodyText)

C3_Witness ==
    /\ pc = "extract"
    /\ args.min_length.kind = "int"
    /\ Len(ParagraphText) > 0
    /\ Len(ParagraphText) < args.min_length.value
    /\ Len(BodyText) < args.min_length.value
    /\ BodyText # ParagraphText
    /\ result = Return(BodyText)

\* no tab, no line break, no two adjacent spaces
IsNormalized(t) ==
    \A i \in DOMAIN t :
        /\ t[i] \notin {"\n", "\t"}
        /\ i < Len(t) => ~ (t[i] = " " /\ t[i + 1] = " ")

StartsWith(key, prefix) ==
    /\ Len(key) >= Len(prefix)
    /\ \A k \in DOMAIN prefix : key[k] = prefix[k]

Passes(i) == StartsWith(documents[i].key, <<"8", "-", "K">>) \/ StartsWith(documents[i].key, <<"E", "X", "-">>)

Passing == {i \in DOMAIN documents : Passes(i)}

\* what the extractor yields for the i-th document of the assembler's call
Extraction(i) == extract_text_from_html(args.sel[i], args.min_length)

Fails(i) == ~ args.raw_html /\ Extraction(i).kind = "raise"

ContentOf(i) == IF args.raw_html THEN documents[i].value ELSE Extraction(i).value

EntryOf(i) == documents[i].key \o <<":">> \o ContentOf(i) \o args.separator_character

KeyEntryOf(i) == documents[i].key \o args.separator_character

\* the entries, and the key entries, of the passing documents among from .. to
RECURSIVE EntriesOf(_, _)
EntriesOf(from, to) ==
    IF from > to THEN <<>>
    ELSE (IF Passes(from) THEN EntryOf(from) ELSE <<>>) \o EntriesOf(from + 1, to)

RECURSIVE KeyEntriesOf(_, _)
KeyEntriesOf(from, to) ==
    IF from > to THEN <<>>
    ELSE (IF Passes(from) THEN KeyEntryOf(from) ELSE <<>>) \o KeyEntriesOf(from + 1, to)

EndsWith(t, suffix) ==
    /\ Len(t) >= Len(suffix)
    /\ SubSeq(t, Len(t) - Len(suffix) + 1, Len(t)) = suffix

E2E_raw_text ==
    <<"<", "D", "O", "C", "U", "M", "E", "N", "T", ">", "<", "T", "Y", "P", "E", ">",
      "8", "-", "K", "\n", "f", "o", "o", "\n", "<", "/", "D", "O", "C", "U", "M", "E",
      "N", "T", ">", "<", "D", "O", "C", "U", "M", "E", "N", "T", ">", "<", "T", "Y",
      "P", "E", ">", "E", "X", "-", "9", "9", ".", "1", "\n", "b", "a", "r", "\n", "<",
      "/", "D", "O", "C", "U", "M", "E", "N", "T", ">">>

\* the output the scenario states
E2E_stated ==
    <<"8", "-", "K", ":", "f", "o", "o", "\n", "|", "E", "X", "-", "9", "9", ".", "1",
      ":", "b", "a", "r", "\n", "|">>

\* the output with each body being the whole slice between the markers
E2E_slices ==
    <<"8", "-", "K", ":", "<", "T", "Y", "P", "E", ">", "8", "-", "K", "\n", "f", "o",
      "o", "\n", "|", "E", "X", "-", "9", "9", ".", "1", ":", "<", "T", "Y", "P", "E",
      ">", "E", "X", "-", "9", "9", ".", "1", "\n", "b", "a", "r", "\n", "|">>

E2E_call ==
    /\ pc = "get_8K"
    /\ raw_submission = E2E_raw_text
    /\ args.raw_html
    /\ args.separator_character = <<"|">>
    /\ ~ args.return_keys

\* C5 as stated: the end-to-end scenario yields "8-K:foo\n|EX-99.1:bar\n|",
\* each entry holding the body without its <TYPE> line.
C5_AsStated == E2E_call => result = Return(E2E_stated)

\* C5: with raw_html = True and separator "|", the scenario's raw text is
\* assembled to "8-K:<TYPE>8-K\nfoo\n|EX-99.1:<TYPE>EX-99.1\nbar\n|": each
\* entry is the label, a colon and the whole slice between the markers,
\* <TYPE> line included, followed by the separator.
C5_EndToEnd == E2E_call => result = Return(E2E_slices)

C5_Witness == E2E_call /\ result.kind = "return" /\ Len(documents) = 2

\* the extractor is reached with a negative threshold
NegativeMinLength == args.min_length.kind = "int" /\ args.min_length.value < 0

ExtractorReachedNegative ==
    \/ pc = "extract" /\ NegativeMinLength
    \/ pc = "get_8K" /\ ~ args.raw_html /\ NegativeMinLength /\ Passing # {}

\* C6 as stated: a negative min_length ends the call with an error and no
\* extracted text.
C6_AsStated == ExtractorReachedNegative => result.kind = "raise"

\* the paragraph text when it is not empty, the whole-body text otherwise
PreferParagraph(sel) ==
    IF re_sub_space(join(xpath_p_text(sel))) # <<>>
    THEN re_sub_space(join(xpath_p_text(sel)))
    ELSE re_sub_space(join(xpath_body_text(sel)))

\* C6: a negative min_length raises nothing: the length test never holds,
\* and the extractor returns the normalized paragraph text when it is not
\* empty and the normalized whole-body text otherwise, also inside the
\* assembler.
C6_NegativeAccepted ==
    ExtractorReachedNegative =>
        /\ result.kind = "return"
        /\ pc = "extract" => result.value = PreferParagraph(args.html)
        /\ pc = "get_8K" =>
              \A i \in Passing : /\ Extraction(i) = Return(PreferParagraph(args.sel[i]))
                                 /\ form_8k_string = EntriesOf(1, Len(documents))

C6_Witness ==
    /\ pc = "extract"
    /\ NegativeMinLength
    /\ ParagraphText # <<>>
    /\ ParagraphText # BodyText
    /\ result = Return(ParagraphText)

\* t holds the text u somewhere
Contains(t, u) == \E i \in 1 .. Len(t) + 1 : i + Len(u) - 1 <= Len(t) /\ SubSeq(t, i, i + Len(u) - 1) = u

\* C7 as stated: when the extraction fails for one of several matching
\* documents the assembler still completes, with the entries of all others.
C7_AsStated ==
    (pc = "get_8K" /\ ~ args.raw_html /\ Cardinality(Passing) >= 2 /\ \E i \in Passing : Fails(i)) =>
        /\ result.kind = "return"
        /\ \A j \in Passing : ~ Fails(j) => Contains(form_8k_string, EntryOf(j))

FirstFailing == CHOOSE i \in Passing : Fails(i) /\ \A j \in Passing : Fails(j) => i <= j

\* C7: a failing extraction is not isolated: the exception leaves the
\* assembler, which returns no text; the entries of the documents before the
\* failing one have been built and are lost, those after it are never
\* produced. The assembler completes, with every passing entry in order,
\* exactly when no extraction fails.
C7_FailurePropagates ==
    (pc = "get_8K" /\ ~ args.raw_html) =>
        /\ result.kind = "raise" <=> \E i \in Passing : Fails(i)
        /\ result.kind = "return" => form_8k_string = EntriesOf(1, Len(documents))
        /\ result.kind = "raise" =>
              /\ result = Raise("TypeError")
              /\ form_8k_string = EntriesOf(1, FirstFailing - 1)
                                      \o documents[FirstFailing].key \o <<":">>
              /\ form_8k_keys = KeyEntriesOf(1, FirstFailing - 1)

C7_Witness ==
    /\ pc = "get_8K"
    /\ ~ args.raw_html
    /\ result.kind = "raise"
    /\ \E j \in Passing : j > FirstFailing /\ ~ Fails(j)

\* the start and end markers alternate: the text is a sequence of blocks
IsSE(m) == m.what \in {"S", "E"}

WellNested ==
    LET se == SelectSeq(marks, IsSE)
    IN  /\ Len(se) % 2 = 0
        /\ \A k \in DOMAIN se : se[k].what = (IF k % 2 = 1 THEN "S" ELSE "E")

StartsBefore(q) == Cardinality({i \in DOMAIN FiledStarts : FiledStarts[i].at < q})
EndsBefore(q) == Cardinality({i \in DOMAIN FiledEnds : FiledEnds[i].at < q})

\* the block that holds the j-th <TYPE> line, 0 when it lies outside every block
Holding(j) ==
    LET q == FiledTypes[j].at
    IN  IF StartsBefore(q) = EndsBefore(q) + 1 THEN StartsBefore(q) ELSE 0

\* every block holds exactly one <TYPE> line and none lies outside a block
Aligned ==
    /\ \A j \in DOMAIN FiledTypes : Holding(j) # 0
    /\ \A i \in DOMAIN FiledStarts :
          Cardinality({j \in DOMAIN FiledTypes : Holding(j) = i}) = 1

\* the stored body of entry k holds the <TYPE> line of its own key
OwnLine(k) == Contains(documents[k].value, TypeLine(documents[k].key))

\* the j-th <TYPE> line is one too many: it comes before the first block or
\* is not the first one of its block
Surplus(j) ==
    \/ FiledStarts # <<>> /\ FiledTypes[j].at < FiledStarts[1].at
    \/ \E j0 \in DOMAIN FiledTypes : j0 < j /\ Holding(j0) # 0 /\ Holding(j0) = Holding(j)

\* the values are paired with the keys by position alone
OrdinalPairing ==
    /\ KeysDistinct(documents)
    /\ {documents[k].key : k \in DOMAIN documents}
          = {FiledTypes[i].label : i \in 1 .. FiledZip}
    /\ \A k \in DOMAIN documents :
          documents[k].key \in {FiledTypes[i].label : i \in 1 .. FiledZip}
          => documents[k].value = Between(LastWith(documents[k].key, FiledZip))

\* C10 as stated: labels and bodies are paired by position; with equal
\* counts the stored bodies hold their own <TYPE> lines only if every block
\* holds exactly one <TYPE> line and none lies outside; a surplus <TYPE> line
\* shifts every later label onto a different block's body.
C10_AsStated ==
    (pc = "find_documents" /\ WellNested /\ ~ CountsDiffer) =>
        /\ OrdinalPairing
        /\ (\A k \in DOMAIN documents : OwnLine(k)) => Aligned
        /\ \A j0, j \in DOMAIN FiledTypes : (Surplus(j0) /\ j0 < j) => Holding(j) # j

\* every block up to the i-th holds a <TYPE> line
NoneEmptyUpTo(i) == \A b \in 1 .. i : \E j \in DOMAIN FiledTypes : Holding(j) = b

\* C10: labels and bodies are paired by position alone, wherever the <TYPE>
\* lines lie. With equal counts: when every block holds exactly one <TYPE>
\* line and none lies outside, every stored body holds the <TYPE> line of
\* its own key, and conversely when the labels are pairwise distinct; a
\* stored body holds its key's <TYPE> line exactly when a line with that
\* label lies in the block the key's last position selects; a surplus <TYPE>
\* line shifts every later label onto a different block's body as long as
\* no block without a <TYPE> line comes before that label's block.
C10_OrdinalPairing ==
    pc = "find_documents" =>
        /\ OrdinalPairing
        /\ (WellNested /\ ~ CountsDiffer) =>
              /\ Aligned => \A k \in DOMAIN documents : OwnLine(k)
              /\ (DistinctLabels /\ \A k \in DOMAIN documents : OwnLine(k)) => Aligned
              /\ \A k \in DOMAIN documents :
                    OwnLine(k) <=>
                       \E j \in DOMAIN FiledTypes :
                          /\ FiledTypes[j].label = documents[k].key
                          /\ Holding(j) = LastWith(documents[k].key, FiledZip)
              /\ \A j0, j \in DOMAIN FiledTypes :
                    (Surplus(j0) /\ j0 < j /\ NoneEmptyUpTo(Holding(j))) => Holding(j) # j

C10_Witness ==
    /\ pc = "find_documents"
    /\ WellNested
    /\ ~ CountsDiffer
    /\ ~ Aligned
    /\ \E j0, j \in DOMAIN FiledTypes :
          /\ Surplus(j0)
          /\ j0 < j
          /\ Holding(j) \notin {0, j}
          /\ \E k \in DOMAIN documents :
                documents[k].key = FiledTypes[j].label /\ ~ OwnLine(k)
    /\ \E k \in DOMAIN documents : OwnLine(k)

====
